---- MODULE Spec2Model ----
(***************************************************************************)
(* Model of the NFC service module of citra                                *)
(* (src/core/hle/service/nfc/nfc.h, nfc.cpp): the tag state machine, the   *)
(* amiibo record held in Module::amiibo_data, the two notification events  *)
(* and every handler of Module::Interface, together with the two entry     *)
(* points of the frontend, LoadAmiibo and RemoveAmiibo.                    *)
(*                                                                         *)
(* The record is kept byte for byte: amiibo_data is a function from the    *)
(* offsets 0 .. 0x21B to bytes and every field is read and written at the  *)
(* offset the packed structs AmiiboDataEnc / AmiiboDataDec give it.        *)
(***************************************************************************)
EXTENDS Integers, Sequences, FiniteSets, TLC

(***************************************************************************)
(* Bounds of the model.                                                    *)
(***************************************************************************)
\* UpdateStoredAmiiboData gets past its checks at most this often, which
\* bounds the write counter.
MaxUpdates == 1

(***************************************************************************)
(* enum class TagState, enum class CommunicationStatus, ErrCodes (nfc.h).  *)
(***************************************************************************)
NotInitialized == 0
NotScanning == 1
Scanning == 2
TagInRange == 3
TagOutOfRange == 4
TagDataLoaded == 5
Unknown6 == 6

TagStates == {NotInitialized, NotScanning, Scanning, TagInRange, TagOutOfRange,
              TagDataLoaded, Unknown6}

CommunicationStatusInitialized == 2

RESULT_SUCCESS == 0
CommandInvalidForState == 512
AppDataUninitialized == 544
AmiiboNotSetup == 552
AppIdMismatch == 568

(***************************************************************************)
(* Layout of the record (struct AmiiboDataEnc, struct AmiiboDataDec).      *)
(***************************************************************************)
SizeofAmiiboData == 540     \* 0x21C
EncUuidOff == 0
EncCharIdOff == 84          \* 0x54
EncCharVariantOff == 86     \* 0x56
EncFigureTypeOff == 87      \* 0x57
EncModelNumberOff == 88     \* 0x58
EncSeriesOff == 90          \* 0x5A
FlagsOff == 44              \* 0x2C
CountryOff == 45            \* 0x2D
SetupDateOff == 48          \* 0x30
LastWriteDateOff == 50      \* 0x32
NicknameOff == 56           \* 0x38
MiiOff == 76                \* 0x4C
WriteCountOff == 180        \* 0xB4
AppIdOff == 182             \* 0xB6
AppDataOff == 220           \* 0xDC
AppDataSize == 216          \* 0xD8
DecUuidOff == 468           \* 0x1D4
UuidSize == 7
DecCharIdOff == 476         \* 0x1DC
DecCharVariantOff == 478    \* 0x1DE
DecFigureTypeOff == 479     \* 0x1DF
DecModelNumberOff == 480    \* 0x1E0
DecSeriesOff == 482         \* 0x1E2
Unknown3Off == 483          \* 0x1E3
MiiSize == 96               \* 0x60
SettingsNicknameSize == 22  \* sizeof(AmiiboSettings::nickname), 11 * u16
SettingsDummySize == 44     \* 0x2C
TagInfoIdSize == 40         \* 0x28
ConfigPaddingSize == 48     \* 0x30
IdBlockPaddingSize == 47    \* 0x2F

Offsets == 0 .. (SizeofAmiiboData - 1)
Byte == 0 .. 255

(***************************************************************************)
(* Bit operations on naturals, as the C++ operators compute them.          *)
(***************************************************************************)
RECURSIVE BitAnd(_, _)
BitAnd(a, b) ==
    IF a = 0 \/ b = 0 THEN 0
    ELSE (a % 2) * (b % 2) + 2 * BitAnd(a \div 2, b \div 2)

RECURSIVE BitOr(_, _)
BitOr(a, b) ==
    IF a = 0 THEN b
    ELSE IF b = 0 THEN a
    ELSE (IF a % 2 = 1 \/ b % 2 = 1 THEN 1 ELSE 0) + 2 * BitOr(a \div 2, b \div 2)

RECURSIVE Pow2(_)
Pow2(n) == IF n = 0 THEN 1 ELSE 2 * Pow2(n - 1)

ShiftLeft(a, n) == a * Pow2(n)
ShiftRight(a, n) == a \div Pow2(n)

(***************************************************************************)
(* Byte-level helpers: fields of the packed structs and of the replies.    *)
(***************************************************************************)
U16BE(d, off) == d[off] * 256 + d[off + 1]
U16LE(d, off) == d[off] + d[off + 1] * 256
U32BE(d, off) == ((d[off] * 256 + d[off + 1]) * 256 + d[off + 2]) * 256 + d[off + 3]
BytesLE16(v) == << v % 256, (v \div 256) % 256 >>
BytesBE16(v) == << (v \div 256) % 256, v % 256 >>
BytesBE32(v) == << (v \div 16777216) % 256, (v \div 65536) % 256,
                   (v \div 256) % 256, v % 256 >>
Zeros(n) == [i \in 1 .. n |-> 0]
Fill(n, b) == [i \in 1 .. n |-> b]
\* n bytes of d starting at offset off, as a buffer (1-based sequence)
SubBytes(d, off, n) == [i \in 1 .. n |-> d[off + i - 1]]
\* std::memcpy(d + off, buf, n)
Memcpy(d, off, buf, n) ==
    IF n = 0 THEN d
    ELSE [i \in DOMAIN d |-> IF i >= off /\ i < off + n THEN buf[i - off + 1] ELSE d[i]]
\* the store of a u16_be / u32_be field at offset off
StoreBE16(d, off, v) ==
    [d EXCEPT ![off] = (v \div 256) % 256, ![off + 1] = v % 256]
StoreBE32(d, off, v) ==
    [d EXCEPT ![off] = (v \div 16777216) % 256, ![off + 1] = (v \div 65536) % 256,
              ![off + 2] = (v \div 256) % 256, ![off + 3] = v % 256]

(***************************************************************************)
(* nfc.cpp 19-43: the date codec and the flag tests.                       *)
(***************************************************************************)
\* pack_date with the month shifted by 8 instead of 7
pack_date_Shift8(month, day, year) ==
    BitOr(BitOr(ShiftLeft(BitAnd(day, 31), 11), ShiftLeft(BitAnd(month, 15), 8)),
          (year - 2000) % 128) % 65536

pack_date(month, day, year) ==
    BitOr(BitOr(ShiftLeft(BitAnd(day, 31), 11), ShiftLeft(BitAnd(month, 15), 7)),
          (year - 2000) % 128) % 65536

unpack_date_day(date) == ShiftRight(BitAnd(date, 63488), 11) % 256
unpack_date_month(date) == ShiftRight(BitAnd(date, 1920), 7) % 256
unpack_date_year(date) == (BitAnd(date, 127) + 2000) % 65536

flag_settings_initted(flags) == BitAnd(flags, 16) # 0
flag_appdata_initted(flags) == BitAnd(flags, 32) # 0

(***************************************************************************)
(* Inputs of the model.                                                    *)
(***************************************************************************)
\* paths the frontend may hand to LoadAmiibo
Paths == {"logical.bin", "raw.bin", "short.bin", "missing.bin"}
\* (flags byte, write counter, app id) of the dumps on disk: a tag never set
\* up whose counter carries into the high byte, and a tag set up with the
\* largest counter; the app id is 0x01020304
InitTags == {<< 0, 255, 16909060 >>, << 63, 65535, 16909060 >>}
\* what the bytes of amiibo_data, which no constructor initialises, may hold
UninitFills == {0, 205}
\* the ids a guest passes: the one stored in the dumps, and another
AppIds == {16909060, 84281096}
\* << declared size, buffer length >> of the app data a guest passes: the
\* full region, one byte, two mismatches, an oversize declaration with a full
\* buffer, and an oversize declaration with a buffer as long
Requests == {<< AppDataSize, AppDataSize >>, << 1, 1 >>, << 1, AppDataSize >>,
             << AppDataSize, 1 >>, << AppDataSize + 1, AppDataSize >>, << 264, 264 >>}
\* the n bytes of app data a guest passes
Payload(n) == Fill(n, 90)
\* outcomes of opening and writing the backing file
IoOutcomes == {"ok", "open_fail", "write_fail"}

\* a 0x21C-byte dump: every byte distinct from its neighbours, with the
\* discriminant byte, the flags, the write counter and the app id as given
Image(unknown3, flags, write_count, app_id) ==
    [i \in Offsets |->
        CASE i = Unknown3Off -> unknown3
          [] i = FlagsOff -> flags
          [] i = WriteCountOff -> write_count \div 256
          [] i = WriteCountOff + 1 -> write_count % 256
          [] i \in AppIdOff .. (AppIdOff + 3) -> BytesBE32(app_id)[i - AppIdOff + 1]
          [] OTHER -> (i * 7 + 3) % 256]

\* a file of the host: whether it exists, its size, and its bytes by file
\* offset
FileOf(d) == [exists |-> TRUE, size |-> SizeofAmiiboData, data |-> d]
MissingFile == [exists |-> FALSE, size |-> 0, data |-> << >>]
\* the first n bytes of the dump d, as a file
TruncatedFile(d, n) == [exists |-> TRUE, size |-> n, data |-> [i \in 0 .. (n - 1) |-> d[i]]]

(***************************************************************************)
(* State: the members of Module (nfc.h 383-391), the files of the host,    *)
(* and the last operation with what it pushed to the guest.  An event is   *)
(* the flag its Signal() sets; `signals` counts the Signal() calls the     *)
(* last operation made on each event.                                      *)
(***************************************************************************)
VARIABLES
    nfc_tag_state,            \* TagState
    nfc_status,               \* CommunicationStatus
    amiibo_data,              \* u8 amiibo_data[sizeof(AmiiboDataDec)]
    amiibo_decrypted,         \* bool
    amiibo_filename,          \* std::string
    amiibo_in_range,          \* bool
    tag_in_range_event,       \* Signal() was called on the event
    tag_out_of_range_event,   \* Signal() was called on the event
    files,                    \* path -> file of the host file system
    updates,                  \* how often UpdateStoredAmiiboData passed its checks
    op,                       \* the last operation and its arguments
    reply,                    \* what the last operation pushed to the guest
    signals,                  \* Signal() calls of the last operation, per event
    hle_lock,                 \* the thread that holds HLE::g_hle_lock
    frontend,                 \* the frontend thread inside LoadAmiibo / RemoveAmiibo
    guest,                    \* the guest thread inside UpdateStoredAmiiboData
    date_io                   \* a date on its way through pack_date and unpack_date_*

module_vars == << nfc_tag_state, nfc_status, amiibo_data, amiibo_decrypted,
                  amiibo_filename, amiibo_in_range, tag_in_range_event,
                  tag_out_of_range_event >>
vars == << nfc_tag_state, nfc_status, amiibo_data, amiibo_decrypted,
           amiibo_filename, amiibo_in_range, tag_in_range_event,
           tag_out_of_range_event, files, updates, op, reply, signals,
           hle_lock, frontend, guest, date_io >>
\* what a handler that runs as one step leaves alone: the lock is taken and
\* released within the step, and no other thread is inside the module
outside_vars == << hle_lock, frontend, guest, date_io >>

\* no request is being handled: the guest has taken the last reply
Idle == [name |-> "none", from |-> NotInitialized, size |-> 0, len |-> 0,
         app_id |-> 0, path |-> "", io |-> "ok", ret |-> TRUE]
\* the operation `name`, dispatched in the current state; the handler fills
\* in its arguments (size, len, app_id, path), the outcome of its file
\* access (io) and what it returns to the frontend (ret)
Op(name) == [Idle EXCEPT !.name = name, !.from = nfc_tag_state]
NoReply == [pushed |-> FALSE, status |-> RESULT_SUCCESS, payload |-> << >>, object |-> ""]
Reply(status, payload) ==
    [pushed |-> TRUE, status |-> status, payload |-> payload, object |-> ""]
ReplyObject(status, object) ==
    [pushed |-> TRUE, status |-> status, payload |-> << >>, object |-> object]
NoSignals == [in |-> 0, out |-> 0]

Ready == op = Idle

\* the frontend thread outside LoadAmiibo and RemoveAmiibo; inside, pc is
\* the line of nfc.cpp it is about to run, and path, local, success are
\* LoadAmiibo's fullpath, its local AmiiboDataDec and its result
FrontendIdle == [pc |-> "idle", path |-> "", local |-> << >>, success |-> FALSE]
\* the guest thread outside UpdateStoredAmiiboData; inside, pc is the line
\* it is about to run and checked holds what the checks of 469-475 saw
GuestIdle == [pc |-> "idle", filename |-> "", checked |-> << >>]
\* no date is being converted
NoDate == [pc |-> "none", month |-> 0, day |-> 0, year |-> 0, stored |-> << 0, 0 >>,
           out_month |-> 0, out_day |-> 0, out_year |-> 0]

\* the module as its constructor leaves it, and the files of the host
Constructed ==
    /\ nfc_tag_state = NotInitialized
    /\ nfc_status = CommunicationStatusInitialized
    /\ \E f \in UninitFills : amiibo_data = [i \in Offsets |-> f]
    /\ amiibo_decrypted = FALSE
    /\ amiibo_filename = ""
    /\ amiibo_in_range = FALSE
    /\ tag_in_range_event = FALSE
    /\ tag_out_of_range_event = FALSE
    /\ \E t \in InitTags :
          files = [p \in Paths |->
                     CASE p = "logical.bin" -> FileOf(Image(2, t[1], t[2], t[3]))
                       [] p = "raw.bin" -> FileOf(Image(0, t[1], t[2], t[3]))
                       [] p = "short.bin" ->
                            TruncatedFile(Image(2, t[1], t[2], t[3]), SizeofAmiiboData - 1)
                       [] OTHER -> MissingFile]
    /\ updates = 0
    /\ op = Idle
    /\ reply = NoReply
    /\ signals = NoSignals

Init ==
    /\ Constructed
    /\ hle_lock = "free"
    /\ frontend = FrontendIdle
    /\ guest = GuestIdle
    /\ date_io = NoDate

(***************************************************************************)
(* nfc.cpp 646-661: Module::SyncTagState.  The result is the new state and *)
(* the number of Signal() calls made on each event.                        *)
(***************************************************************************)
\* SyncTagState with Unknown6 forgotten in the second test
SyncTagState_NoUnknown6(state, in_range) ==
    IF in_range /\ (state = TagOutOfRange \/ state = Scanning)
    THEN [state |-> TagInRange, in |-> 1, out |-> 0]
    ELSE IF ~in_range /\ (state = TagInRange \/ state = TagDataLoaded)
    THEN [state |-> TagOutOfRange, in |-> 0, out |-> 1]
    ELSE [state |-> state, in |-> 0, out |-> 0]

\* SyncTagState that also takes a tag found while NotScanning as entering
SyncTagState_FromNotScanning(state, in_range) ==
    IF in_range /\ (state = TagOutOfRange \/ state = Scanning \/ state = NotScanning)
    THEN [state |-> TagInRange, in |-> 1, out |-> 0]
    ELSE IF ~in_range /\ (state = TagInRange \/ state = TagDataLoaded \/ state = Unknown6)
    THEN [state |-> TagOutOfRange, in |-> 0, out |-> 1]
    ELSE [state |-> state, in |-> 0, out |-> 0]

\* SyncTagState that signals the wrong event when a tag enters
SyncTagState_WrongEvent(state, in_range) ==
    IF in_range /\ (state = TagOutOfRange \/ state = Scanning)
    THEN [state |-> TagInRange, in |-> 0, out |-> 1]
    ELSE IF ~in_range /\ (state = TagInRange \/ state = TagDataLoaded \/ state = Unknown6)
    THEN [state |-> TagOutOfRange, in |-> 0, out |-> 1]
    ELSE [state |-> state, in |-> 0, out |-> 0]

\* SyncTagState signalling the entered-range event whenever a tag is present
SyncTagState_SignalsWhenPresent(state, in_range) ==
    IF in_range
    THEN [state |-> IF state = TagOutOfRange \/ state = Scanning THEN TagInRange ELSE state,
          in |-> 1, out |-> 0]
    ELSE IF state = TagInRange \/ state = TagDataLoaded \/ state = Unknown6
    THEN [state |-> TagOutOfRange, in |-> 0, out |-> 1]
    ELSE [state |-> state, in |-> 0, out |-> 0]

SyncTagState(state, in_range) ==
    IF in_range /\ (state = TagOutOfRange \/ state = Scanning)
    THEN [state |-> TagInRange, in |-> 1, out |-> 0]
    ELSE IF ~in_range /\ (state = TagInRange \/ state = TagDataLoaded \/ state = Unknown6)
    THEN [state |-> TagOutOfRange, in |-> 0, out |-> 1]
    ELSE [state |-> state, in |-> 0, out |-> 0]

\* the assignments a call of nfc->SyncTagState() makes, from the state
\* `state` and the presence flag `in_range` the call finds
DoSync(state, in_range) ==
    LET s == SyncTagState(state, in_range) IN
    /\ nfc_tag_state' = s.state
    /\ tag_in_range_event' = (tag_in_range_event \/ s.in > 0)
    /\ tag_out_of_range_event' = (tag_out_of_range_event \/ s.out > 0)
    /\ signals' = [in |-> s.in, out |-> s.out]

\* a handler that returns having touched no member of Module and no file
Untouched == UNCHANGED << module_vars, files, updates >> /\ signals' = NoSignals

\* a handler that assigns nfc_tag_state and nothing else
SetState(state) ==
    /\ nfc_tag_state' = state
    /\ signals' = NoSignals
    /\ UNCHANGED << nfc_status, amiibo_data, amiibo_decrypted, amiibo_filename,
                    amiibo_in_range, tag_in_range_event, tag_out_of_range_event,
                    files, updates >>

\* the reply of a handler that rejects the current state
InvalidState == Reply(CommandInvalidForState, << >>)
Success == Reply(RESULT_SUCCESS, << >>)

(***************************************************************************)
(* nfc.cpp 109-172: Initialize, Shutdown, StartCommunication,              *)
(* StopCommunication, StartTagScanning.                                    *)
(***************************************************************************)
Initialize ==
    /\ Ready
    /\ UNCHANGED outside_vars
    /\ op' = Op("Initialize")
    /\ IF nfc_tag_state # NotInitialized
       THEN reply' = InvalidState /\ Untouched
       ELSE reply' = Success /\ SetState(NotScanning)

\* Shutdown refusing a module that is not initialized
Shutdown_StateChecked ==
    /\ Ready
    /\ UNCHANGED outside_vars
    /\ op' = Op("Shutdown")
    /\ IF nfc_tag_state = NotInitialized
       THEN reply' = InvalidState /\ Untouched
       ELSE reply' = Success /\ SetState(NotInitialized)

Shutdown ==
    /\ Ready
    /\ UNCHANGED outside_vars
    /\ op' = Op("Shutdown")
    /\ reply' = Success
    /\ SetState(NotInitialized)

StartCommunication ==
    /\ Ready
    /\ UNCHANGED outside_vars
    /\ op' = Op("StartCommunication")
    /\ reply' = Success
    /\ Untouched

StopCommunication ==
    /\ Ready
    /\ UNCHANGED outside_vars
    /\ op' = Op("StopCommunication")
    /\ reply' = Success
    /\ Untouched

\* StartTagScanning without the call of SyncTagState
StartTagScanning_NoSync ==
    /\ Ready
    /\ UNCHANGED outside_vars
    /\ op' = Op("StartTagScanning")
    /\ IF nfc_tag_state # NotScanning /\ nfc_tag_state # TagOutOfRange
       THEN reply' = InvalidState /\ Untouched
       ELSE reply' = Success /\ SetState(Scanning)

StartTagScanning ==
    /\ Ready
    /\ UNCHANGED outside_vars
    /\ op' = Op("StartTagScanning")
    /\ IF nfc_tag_state # NotScanning /\ nfc_tag_state # TagOutOfRange
       THEN reply' = InvalidState /\ Untouched
       ELSE /\ DoSync(Scanning, amiibo_in_range)
            /\ reply' = Success
            /\ UNCHANGED << nfc_status, amiibo_data, amiibo_decrypted, amiibo_filename,
                            amiibo_in_range, files, updates >>

(***************************************************************************)
(* nfc.cpp 174-206: GetTagInfo.  The payload is struct TagInfo as PushRaw  *)
(* lays it out: id_offset_size (u16_le), unk1, unk2, id[0x28].             *)
(***************************************************************************)
\* the tag info with the id always taken from the offset of the raw layout
TagInfoOf_RawOffset(data, decrypted) ==
    BytesLE16(UuidSize) \o << 0, 2 >> \o SubBytes(data, EncUuidOff, UuidSize)
      \o Zeros(TagInfoIdSize - UuidSize)

TagInfoOf(data, decrypted) ==
    LET uuid == IF ~decrypted THEN SubBytes(data, EncUuidOff, UuidSize)
                ELSE SubBytes(data, DecUuidOff, UuidSize)
    IN  BytesLE16(UuidSize) \o << 0, 2 >> \o uuid \o Zeros(TagInfoIdSize - UuidSize)

GetTagInfo ==
    /\ Ready
    /\ UNCHANGED outside_vars
    /\ op' = Op("GetTagInfo")
    /\ IF nfc_tag_state # TagInRange /\ nfc_tag_state # TagDataLoaded
          /\ nfc_tag_state # Unknown6
       THEN reply' = InvalidState
       ELSE reply' = Reply(RESULT_SUCCESS, TagInfoOf(amiibo_data, amiibo_decrypted))
    /\ Untouched

(***************************************************************************)
(* nfc.cpp 208-250: GetAmiiboSettings.  The payload is struct              *)
(* AmiiboSettings (nfc.h 94-103): mii, nickname (11 u16, copied raw),      *)
(* flags, country, setup_year (u16), setup_month, setup_day, dummy.        *)
(***************************************************************************)
\* the settings with the flags byte copied unmasked
AmiiboSettingsOf_UnmaskedFlags(data) ==
    LET setup_date == U16BE(data, SetupDateOff) IN
    SubBytes(data, MiiOff, MiiSize)
      \o SubBytes(data, NicknameOff, SettingsNicknameSize)
      \o << data[FlagsOff], data[CountryOff] >>
      \o BytesLE16(unpack_date_year(setup_date))
      \o << unpack_date_month(setup_date), unpack_date_day(setup_date) >>
      \o Zeros(SettingsDummySize)

AmiiboSettingsOf(data) ==
    LET setup_date == U16BE(data, SetupDateOff) IN
    SubBytes(data, MiiOff, MiiSize)
      \o SubBytes(data, NicknameOff, SettingsNicknameSize)
      \o << BitAnd(data[FlagsOff], 15), data[CountryOff] >>
      \o BytesLE16(unpack_date_year(setup_date))
      \o << unpack_date_month(setup_date), unpack_date_day(setup_date) >>
      \o Zeros(SettingsDummySize)

SizeofAmiiboSettings == 168     \* 0xA8

GetAmiiboSettings ==
    /\ Ready
    /\ UNCHANGED outside_vars
    /\ op' = Op("GetAmiiboSettings")
    /\ IF ~amiibo_decrypted
       THEN reply' = NoReply
       ELSE IF ~flag_settings_initted(amiibo_data[FlagsOff])
       THEN reply' = Reply(AmiiboNotSetup, Zeros(SizeofAmiiboSettings))
       ELSE reply' = Reply(RESULT_SUCCESS, AmiiboSettingsOf(amiibo_data))
    /\ Untouched

(***************************************************************************)
(* nfc.cpp 256-278: OpenAppData.                                           *)
(***************************************************************************)
\* OpenAppData testing the flag before the app id
OpenAppData_FlagFirst ==
    \E app_id \in AppIds :
    /\ Ready
    /\ UNCHANGED outside_vars
    /\ op' = [Op("OpenAppData") EXCEPT !.app_id = app_id]
    /\ IF ~amiibo_decrypted
       THEN reply' = NoReply
       ELSE IF ~flag_appdata_initted(amiibo_data[FlagsOff])
       THEN reply' = Reply(AppDataUninitialized, << >>)
       ELSE IF app_id # U32BE(amiibo_data, AppIdOff)
       THEN reply' = Reply(AppIdMismatch, << >>)
       ELSE reply' = Success
    /\ Untouched

OpenAppData ==
    \E app_id \in AppIds :
    /\ Ready
    /\ UNCHANGED outside_vars
    /\ op' = [Op("OpenAppData") EXCEPT !.app_id = app_id]
    /\ IF ~amiibo_decrypted
       THEN reply' = NoReply
       ELSE IF app_id # U32BE(amiibo_data, AppIdOff)
       THEN reply' = Reply(AppIdMismatch, << >>)
       ELSE IF ~flag_appdata_initted(amiibo_data[FlagsOff])
       THEN reply' = Reply(AppDataUninitialized, << >>)
       ELSE reply' = Success
    /\ Untouched

(***************************************************************************)
(* nfc.cpp 280-309: InitializeWriteAppData.  The memcpy starts at app_data *)
(* and copies `size` bytes, whatever the capacity of app_data; the lengths *)
(* of Requests keep it inside amiibo_data.                                 *)
(***************************************************************************)
\* the record after the length check, the memcpy and the store of app_id
InitializeWriteAppDataBytes(data, app_id, size, buffer) ==
    IF size # Len(buffer)
    THEN data
    ELSE StoreBE32(Memcpy(data, AppDataOff, buffer, size), AppIdOff, app_id)

InitializeWriteAppData ==
    \E app_id \in AppIds, r \in Requests :
    LET size == r[1]
        buffer == Payload(r[2])
    IN
    /\ Ready
    /\ UNCHANGED outside_vars
    /\ op' = [Op("InitializeWriteAppData") EXCEPT
                 !.app_id = app_id, !.size = size, !.len = r[2]]
    /\ IF ~amiibo_decrypted
       THEN /\ reply' = NoReply
            /\ UNCHANGED amiibo_data
       ELSE /\ amiibo_data' = InitializeWriteAppDataBytes(amiibo_data, app_id, size, buffer)
            /\ reply' = Success
    /\ signals' = NoSignals
    /\ UNCHANGED << nfc_tag_state, nfc_status, amiibo_decrypted, amiibo_filename,
                    amiibo_in_range, tag_in_range_event, tag_out_of_range_event,
                    files, updates >>

(***************************************************************************)
(* nfc.cpp 311-334: ReadAppData.                                           *)
(***************************************************************************)
\* ReadAppData leaving the state as it finds it
ReadAppData_KeepsState ==
    /\ Ready
    /\ UNCHANGED outside_vars
    /\ op' = Op("ReadAppData")
    /\ IF ~amiibo_decrypted
       THEN reply' = NoReply
       ELSE IF nfc_tag_state = NotInitialized
       THEN reply' = InvalidState
       ELSE reply' = Reply(RESULT_SUCCESS, SubBytes(amiibo_data, AppDataOff, AppDataSize))
    /\ Untouched

ReadAppData ==
    /\ Ready
    /\ UNCHANGED outside_vars
    /\ op' = Op("ReadAppData")
    /\ IF ~amiibo_decrypted
       THEN reply' = NoReply /\ Untouched
       ELSE IF nfc_tag_state = NotInitialized
       THEN reply' = InvalidState /\ Untouched
       ELSE /\ reply' = Reply(RESULT_SUCCESS, SubBytes(amiibo_data, AppDataOff, AppDataSize))
            /\ SetState(TagDataLoaded)

(***************************************************************************)
(* nfc.cpp 336-372: WriteAppData.                                          *)
(***************************************************************************)
\* no clamping at all
ClampSize_None(size) == size

\* the size WriteAppData compares with the buffer and copies (353-358)
ClampSize(size) == IF size # AppDataSize /\ size > AppDataSize THEN AppDataSize ELSE size

\* WriteAppData copying the whole region, the payload padded with zeros
WriteAppDataBytes_WholeRegion(data, size, buffer) ==
    IF ClampSize(size) # Len(buffer)
    THEN data
    ELSE Memcpy(data, AppDataOff, buffer \o Zeros(AppDataSize - Len(buffer)), AppDataSize)

\* the record after WriteAppData's length check and memcpy (359-363)
WriteAppDataBytes(data, size, buffer) ==
    IF ClampSize(size) # Len(buffer)
    THEN data
    ELSE Memcpy(data, AppDataOff, buffer, ClampSize(size))

\* the status WriteAppData pushes once the state check has passed (367-368)
WriteAppDataStatus(size, buffer) == RESULT_SUCCESS

WriteAppData ==
    \E r \in Requests :
    LET size == r[1]
        buffer == Payload(r[2])
    IN
    /\ Ready
    /\ UNCHANGED outside_vars
    /\ op' = [Op("WriteAppData") EXCEPT !.size = size, !.len = r[2]]
    /\ IF ~amiibo_decrypted
       THEN reply' = NoReply /\ Untouched
       ELSE IF nfc_tag_state = NotInitialized
       THEN reply' = InvalidState /\ Untouched
       ELSE /\ amiibo_data' = WriteAppDataBytes(amiibo_data, size, buffer)
            /\ nfc_tag_state' = TagDataLoaded
            /\ reply' = Reply(WriteAppDataStatus(size, buffer), << >>)
            /\ signals' = NoSignals
            /\ UNCHANGED << nfc_status, amiibo_decrypted, amiibo_filename,
                            amiibo_in_range, tag_in_range_event,
                            tag_out_of_range_event, files, updates >>

(***************************************************************************)
(* nfc.cpp 374-414: GetAmiiboConfig.  The payload is struct AmiiboConfig   *)
(* (nfc.cpp 79-92).                                                        *)
(***************************************************************************)
AmiiboConfigOf(data, decrypted) ==
    IF ~decrypted
    THEN BytesLE16(2014) \o << 11, 21 >> \o BytesLE16(1)
           \o BytesLE16(U16LE(data, EncCharIdOff))
           \o << data[EncCharVariantOff], data[EncSeriesOff] >>
           \o BytesBE16(U16BE(data, EncModelNumberOff))
           \o << data[EncFigureTypeOff], 0 >>
           \o BytesLE16(0) \o Zeros(ConfigPaddingSize)
    ELSE LET last_write_date == U16BE(data, LastWriteDateOff) IN
         BytesLE16(unpack_date_year(last_write_date))
           \o << unpack_date_month(last_write_date), unpack_date_day(last_write_date) >>
           \o BytesLE16(U16BE(data, WriteCountOff))
           \o BytesLE16(U16LE(data, DecCharIdOff))
           \o << data[DecCharVariantOff], data[DecSeriesOff] >>
           \o BytesBE16(U16BE(data, DecModelNumberOff))
           \o << data[DecFigureTypeOff], 0 >>
           \o BytesLE16(AppDataSize) \o Zeros(ConfigPaddingSize)

GetAmiiboConfig ==
    /\ Ready
    /\ UNCHANGED outside_vars
    /\ op' = Op("GetAmiiboConfig")
    /\ reply' = Reply(RESULT_SUCCESS, AmiiboConfigOf(amiibo_data, amiibo_decrypted))
    /\ Untouched

(***************************************************************************)
(* nfc.cpp 416-463: StopTagScanning, LoadAmiiboData, ResetTagScanState.    *)
(***************************************************************************)
\* StopTagScanning without the test for NotScanning
StopTagScanning_OnlyNotInitialized ==
    /\ Ready
    /\ UNCHANGED outside_vars
    /\ op' = Op("StopTagScanning")
    /\ IF nfc_tag_state = NotInitialized
       THEN reply' = InvalidState /\ Untouched
       ELSE reply' = Success /\ SetState(NotScanning)

StopTagScanning ==
    /\ Ready
    /\ UNCHANGED outside_vars
    /\ op' = Op("StopTagScanning")
    /\ IF nfc_tag_state = NotInitialized \/ nfc_tag_state = NotScanning
       THEN reply' = InvalidState /\ Untouched
       ELSE reply' = Success /\ SetState(NotScanning)

\* LoadAmiiboData with the state check its TODO asks for
LoadAmiiboData_StateChecked ==
    /\ Ready
    /\ UNCHANGED outside_vars
    /\ op' = Op("LoadAmiiboData")
    /\ IF nfc_tag_state # TagInRange
       THEN reply' = InvalidState /\ Untouched
       ELSE reply' = Success /\ SetState(TagDataLoaded)

LoadAmiiboData ==
    /\ Ready
    /\ UNCHANGED outside_vars
    /\ op' = Op("LoadAmiiboData")
    /\ reply' = Success
    /\ SetState(TagDataLoaded)

\* ResetTagScanState without the call of SyncTagState
ResetTagScanState_NoSync ==
    /\ Ready
    /\ UNCHANGED outside_vars
    /\ op' = Op("ResetTagScanState")
    /\ IF nfc_tag_state # TagDataLoaded /\ nfc_tag_state # Unknown6
       THEN reply' = InvalidState /\ Untouched
       ELSE reply' = Success /\ SetState(TagInRange)

ResetTagScanState ==
    /\ Ready
    /\ UNCHANGED outside_vars
    /\ op' = Op("ResetTagScanState")
    /\ IF nfc_tag_state # TagDataLoaded /\ nfc_tag_state # Unknown6
       THEN reply' = InvalidState /\ Untouched
       ELSE /\ DoSync(TagInRange, amiibo_in_range)
            /\ reply' = Success
            /\ UNCHANGED << nfc_status, amiibo_data, amiibo_decrypted, amiibo_filename,
                            amiibo_in_range, files, updates >>

(***************************************************************************)
(* nfc.cpp 465-498: UpdateStoredAmiiboData.  The file is opened "wb",      *)
(* which empties it when the open succeeds; the metadata is updated before *)
(* the result of the open is looked at; RemoveAmiibo and the success reply *)
(* follow whatever the open and the write did.                             *)
(***************************************************************************)
\* the three checks of 469-475 all pass
\* the checks without the test of amiibo_decrypted
UpdatePreconditions_NoVariantCheck(state, decrypted, filename) ==
    state = TagDataLoaded /\ filename # ""

UpdatePreconditions(state, decrypted, filename) ==
    state = TagDataLoaded /\ decrypted /\ filename # ""

\* 482-483: last_write_date = pack_date(11, 21, 2014); write_count++
\* the update with write_count++ forgotten
UpdateMetadata_NoIncrement(data) ==
    StoreBE16(data, LastWriteDateOff, pack_date(11, 21, 2014))

UpdateMetadata(data) ==
    StoreBE16(StoreBE16(data, LastWriteDateOff, pack_date(11, 21, 2014)),
              WriteCountOff, (U16BE(data, WriteCountOff) + 1) % 65536)

\* the record UpdateStoredAmiiboData leaves in memory, given how the open
\* and the write went (482-483 run before 485-488 look at the file)
UpdatedRecord(data, io) == UpdateMetadata(data)

\* 478, 485-489: the backing file after the open "wb" and WriteBytes of the
\* record `data`
WrittenFile(file, data, io) ==
    CASE io = "open_fail" -> file
      [] io = "write_fail" -> [exists |-> TRUE, size |-> 0, data |-> << >>]
      [] OTHER -> FileOf(data)

\* 490-492: the status pushed after the write was attempted
UpdateStatus(io) == RESULT_SUCCESS

\* 490: whether RemoveAmiibo is called after the write was attempted
UpdateEvicts(io) == TRUE

UpdateStoredAmiiboData ==
    \E io \in IoOutcomes :
    /\ Ready
    /\ UNCHANGED outside_vars
    /\ op' = [Op("UpdateStoredAmiiboData") EXCEPT !.io = io]
    /\ IF ~UpdatePreconditions(nfc_tag_state, amiibo_decrypted, amiibo_filename)
       THEN reply' = InvalidState /\ Untouched
       ELSE /\ updates < MaxUpdates
            /\ updates' = updates + 1
            /\ amiibo_data' = UpdatedRecord(amiibo_data, io)
            /\ files' = [files EXCEPT ![amiibo_filename] =
                            WrittenFile(@, amiibo_data', io)]
            /\ IF UpdateEvicts(io)
               THEN /\ amiibo_in_range' = FALSE
                    /\ DoSync(nfc_tag_state, FALSE)
               ELSE /\ signals' = NoSignals
                    /\ UNCHANGED << amiibo_in_range, nfc_tag_state, tag_in_range_event,
                                    tag_out_of_range_event >>
            /\ reply' = Reply(UpdateStatus(io), << >>)
            /\ UNCHANGED << nfc_status, amiibo_decrypted, amiibo_filename >>

(***************************************************************************)
(* nfc.cpp 500-603: GetTagInRangeEvent, GetTagOutOfRangeEvent,             *)
(* GetTagState, CommunicationGetStatus, Unknown0x1A,                       *)
(* GetIdentificationBlock.                                                 *)
(***************************************************************************)
GetTagInRangeEvent ==
    /\ Ready
    /\ UNCHANGED outside_vars
    /\ op' = Op("GetTagInRangeEvent")
    /\ IF nfc_tag_state # NotScanning
       THEN reply' = InvalidState
       ELSE reply' = ReplyObject(RESULT_SUCCESS, "tag_in_range_event")
    /\ Untouched

GetTagOutOfRangeEvent ==
    /\ Ready
    /\ UNCHANGED outside_vars
    /\ op' = Op("GetTagOutOfRangeEvent")
    /\ IF nfc_tag_state # NotScanning
       THEN reply' = InvalidState
       ELSE reply' = ReplyObject(RESULT_SUCCESS, "tag_out_of_range_event")
    /\ Untouched

GetTagState ==
    /\ Ready
    /\ UNCHANGED outside_vars
    /\ op' = Op("GetTagState")
    /\ reply' = Reply(RESULT_SUCCESS, << nfc_tag_state >>)
    /\ Untouched

CommunicationGetStatus ==
    /\ Ready
    /\ UNCHANGED outside_vars
    /\ op' = Op("CommunicationGetStatus")
    /\ reply' = Reply(RESULT_SUCCESS, << nfc_status >>)
    /\ Untouched

Unknown0x1A ==
    /\ Ready
    /\ UNCHANGED outside_vars
    /\ op' = Op("Unknown0x1A")
    /\ IF nfc_tag_state # TagInRange
       THEN reply' = InvalidState /\ Untouched
       ELSE reply' = Success /\ SetState(Unknown6)

\* struct IdentificationBlockReply (nfc.cpp 96-105): char_id (u16_le),
\* char_variant, series, model_number (u16_le), figure_type, padding
IdentificationBlockOf(data, decrypted) ==
    IF ~decrypted
    THEN BytesLE16(U16LE(data, EncCharIdOff))
           \o << data[EncCharVariantOff], data[EncSeriesOff] >>
           \o BytesLE16(U16BE(data, EncModelNumberOff))
           \o << data[EncFigureTypeOff] >> \o Zeros(IdBlockPaddingSize)
    ELSE BytesLE16(U16LE(data, DecCharIdOff))
           \o << data[DecCharVariantOff], data[DecSeriesOff] >>
           \o BytesLE16(U16BE(data, DecModelNumberOff))
           \o << data[DecFigureTypeOff] >> \o Zeros(IdBlockPaddingSize)

GetIdentificationBlock ==
    /\ Ready
    /\ UNCHANGED outside_vars
    /\ op' = Op("GetIdentificationBlock")
    /\ IF nfc_tag_state # TagDataLoaded /\ nfc_tag_state # Unknown6
       THEN reply' = InvalidState
       ELSE reply' = Reply(RESULT_SUCCESS,
                           IdentificationBlockOf(amiibo_data, amiibo_decrypted))
    /\ Untouched

(***************************************************************************)
(* nfc.cpp 609-644: LoadAmiibo and RemoveAmiibo, called by the frontend.   *)
(***************************************************************************)
\* 615-617: the open "rb" succeeds and ReadBytes delivers sizeof(amiibo_data)
LoadSucceeds(file) == file.exists /\ file.size >= SizeofAmiiboData

\* 617: the bytes ReadBytes puts into the local AmiiboDataDec, the first
\* sizeof(amiibo_data) bytes of the file
ReadBytes(file) ==
    IF file.size = SizeofAmiiboData THEN file.data ELSE [i \in Offsets |-> file.data[i]]

\* 624: the classification of the bytes read
IsDecrypted(data) == data[Unknown3Off] = 2

\* LoadAmiibo that stores the path before it has read the file
LoadAmiibo_StoresPathFirst ==
    \E fullpath \in Paths :
    /\ Ready
    /\ UNCHANGED outside_vars
    /\ op' = [Op("LoadAmiibo") EXCEPT !.path = fullpath,
                                      !.ret = LoadSucceeds(files[fullpath])]
    /\ reply' = NoReply
    /\ amiibo_filename' = fullpath
    /\ IF ~LoadSucceeds(files[fullpath])
       THEN /\ signals' = NoSignals
            /\ UNCHANGED << nfc_tag_state, nfc_status, amiibo_data, amiibo_decrypted,
                            amiibo_in_range, tag_in_range_event,
                            tag_out_of_range_event, files, updates >>
       ELSE /\ amiibo_decrypted' = IsDecrypted(ReadBytes(files[fullpath]))
            /\ amiibo_in_range' = TRUE
            /\ amiibo_data' = ReadBytes(files[fullpath])
            /\ DoSync(nfc_tag_state, TRUE)
            /\ UNCHANGED << nfc_status, files, updates >>

LoadAmiibo ==
    \E fullpath \in Paths :
    /\ Ready
    /\ UNCHANGED outside_vars
    /\ op' = [Op("LoadAmiibo") EXCEPT !.path = fullpath,
                                      !.ret = LoadSucceeds(files[fullpath])]
    /\ reply' = NoReply
    /\ IF ~LoadSucceeds(files[fullpath])
       THEN Untouched
       ELSE /\ amiibo_decrypted' = IsDecrypted(ReadBytes(files[fullpath]))
            /\ amiibo_filename' = fullpath
            /\ amiibo_in_range' = TRUE
            /\ amiibo_data' = ReadBytes(files[fullpath])
            /\ DoSync(nfc_tag_state, TRUE)
            /\ UNCHANGED << nfc_status, files, updates >>

\* RemoveAmiibo without the call of SyncTagState
RemoveAmiibo_NoSync ==
    /\ Ready
    /\ UNCHANGED outside_vars
    /\ op' = Op("RemoveAmiibo")
    /\ reply' = NoReply
    /\ amiibo_in_range' = FALSE
    /\ signals' = NoSignals
    /\ UNCHANGED << nfc_tag_state, nfc_status, amiibo_data, amiibo_decrypted,
                    amiibo_filename, tag_in_range_event, tag_out_of_range_event,
                    files, updates >>

RemoveAmiibo ==
    /\ Ready
    /\ UNCHANGED outside_vars
    /\ op' = Op("RemoveAmiibo")
    /\ reply' = NoReply
    /\ amiibo_in_range' = FALSE
    /\ DoSync(nfc_tag_state, FALSE)
    /\ UNCHANGED << nfc_status, amiibo_data, amiibo_decrypted, amiibo_filename,
                    files, updates >>

(***************************************************************************)
(* The end of a request: the guest (or the frontend) has taken what the    *)
(* handler pushed, and the next request may be dispatched.                 *)
(***************************************************************************)
Return ==
    /\ ~Ready
    /\ UNCHANGED outside_vars
    /\ op' = Idle
    /\ reply' = NoReply
    /\ signals' = NoSignals
    /\ UNCHANGED << module_vars, files, updates >>

(***************************************************************************)
(* The specification: any handler or frontend call, in any order, one at a *)
(* time.                                                                   *)
(***************************************************************************)
GuestOps == {"Initialize", "Shutdown", "StartCommunication", "StopCommunication",
             "StartTagScanning", "GetTagInfo", "GetAmiiboSettings", "OpenAppData",
             "InitializeWriteAppData", "ReadAppData", "WriteAppData",
             "GetAmiiboConfig", "StopTagScanning", "LoadAmiiboData",
             "ResetTagScanState", "UpdateStoredAmiiboData", "GetTagInRangeEvent",
             "GetTagOutOfRangeEvent", "GetTagState", "CommunicationGetStatus",
             "Unknown0x1A", "GetIdentificationBlock"}

Next ==
    \/ Initialize
    \/ Shutdown
    \/ StartCommunication
    \/ StopCommunication
    \/ StartTagScanning
    \/ GetTagInfo
    \/ GetAmiiboSettings
    \/ OpenAppData
    \/ InitializeWriteAppData
    \/ ReadAppData
    \/ WriteAppData
    \/ GetAmiiboConfig
    \/ StopTagScanning
    \/ LoadAmiiboData
    \/ ResetTagScanState
    \/ UpdateStoredAmiiboData
    \/ GetTagInRangeEvent
    \/ GetTagOutOfRangeEvent
    \/ GetTagState
    \/ CommunicationGetStatus
    \/ Unknown0x1A
    \/ GetIdentificationBlock
    \/ LoadAmiibo
    \/ RemoveAmiibo
    \/ Return

Spec == Init /\ [][Next]_vars

(***************************************************************************)
(* nfc.cpp 19-33: the date codec on its own.  A date (month, day, year) is *)
(* packed and stored as the u16_be that pack_date returns, big-endian as   *)
(* in last_write_date, and the three unpack functions read it back.        *)
(***************************************************************************)
Months == 1 .. 12
Days == 1 .. 31
Years == 2000 .. 2127

program_vars == << nfc_tag_state, nfc_status, amiibo_data, amiibo_decrypted,
                   amiibo_filename, amiibo_in_range, tag_in_range_event,
                   tag_out_of_range_event, files, updates, op, reply, signals,
                   hle_lock, frontend, guest >>

\* the codec reads no member of Module: one constructed module suffices
DateInit ==
    /\ Constructed
    /\ amiibo_data[0] = 0
    /\ files["logical.bin"].data[FlagsOff] = 0
    /\ hle_lock = "free"
    /\ frontend = FrontendIdle
    /\ guest = GuestIdle
    /\ \E m \in Months, d \in Days, y \in Years :
          date_io = [NoDate EXCEPT !.pc = "input", !.month = m, !.day = d, !.year = y]

\* 19-21: pack_date, and the store of its u16_be result
PackDate ==
    /\ date_io.pc = "input"
    /\ date_io' = [date_io EXCEPT
                     !.pc = "packed",
                     !.stored = BytesBE16(pack_date(date_io.month, date_io.day,
                                                    date_io.year))]
    /\ UNCHANGED program_vars

\* 23-33: the three unpack functions on the stored u16_be
UnpackDate ==
    /\ date_io.pc = "packed"
    /\ date_io' = [date_io EXCEPT
                     !.pc = "unpacked",
                     !.out_month = unpack_date_month(U16BE(date_io.stored, 1)),
                     !.out_day = unpack_date_day(U16BE(date_io.stored, 1)),
                     !.out_year = unpack_date_year(U16BE(date_io.stored, 1))]
    /\ UNCHANGED program_vars

DateNext ==
    \/ PackDate
    \/ UnpackDate

SpecDate == DateInit /\ [][DateNext]_vars

(***************************************************************************)
(* The two threads.  The frontend thread calls LoadAmiibo and RemoveAmiibo *)
(* (nfc.cpp 609-644) while the guest thread runs the handlers.  Here the   *)
(* frontend's calls and UpdateStoredAmiiboData (465-498) advance line by   *)
(* line; hle_lock is the thread that holds HLE::g_hle_lock, a recursive    *)
(* mutex (UpdateStoredAmiiboData holds it at 477 when it calls             *)
(* RemoveAmiibo, which takes it again at 641).  The dispatcher of the      *)
(* guest's requests holds the lock for as long as a handler runs.  Of the  *)
(* handlers that run as one step, those that change the tag state or read  *)
(* the state and the record's identity take part.                          *)
(***************************************************************************)
\* std::lock_guard that does not take the lock: the thread just goes on
lock_guard_Nothing(thread) == UNCHANGED hle_lock

\* 610, 641, 477: std::lock_guard lock(HLE::g_hle_lock); the thread goes on
\* once no other thread holds the lock
lock_guard(thread) == hle_lock \in {"free", thread} /\ hle_lock' = thread

\* 638, 644: the end of the lock_guard's scope in a call of the frontend
unlock(thread) == hle_lock' = IF hle_lock = thread THEN "free" ELSE hle_lock

\* the dispatcher hands a request to a handler that runs as one step: it
\* takes the lock before the handler and releases it after
CallSVC == hle_lock = "free" /\ guest.pc = "idle"

frontend_rest == << files, updates, op, reply, guest, date_io >>

\* 610: LoadAmiibo takes the lock
ConcLoadEnter ==
    \E fullpath \in Paths :
    /\ frontend.pc = "idle"
    /\ lock_guard("frontend")
    /\ frontend' = [FrontendIdle EXCEPT !.pc = "611", !.path = fullpath]
    /\ UNCHANGED << module_vars, signals, frontend_rest >>

\* 611-618: the file is opened and read into the local amiibo_data
ConcLoadRead ==
    /\ frontend.pc = "611"
    /\ IF LoadSucceeds(files[frontend.path])
       THEN frontend' = [frontend EXCEPT !.pc = "624",
                                         !.local = ReadBytes(files[frontend.path])]
       ELSE frontend' = [frontend EXCEPT !.pc = "635"]
    /\ UNCHANGED << module_vars, signals, hle_lock, frontend_rest >>

\* 624: nfc->amiibo_decrypted = amiibo_data.unknown3 == 0x02
ConcLoad624 ==
    /\ frontend.pc = "624"
    /\ amiibo_decrypted' = IsDecrypted(frontend.local)
    /\ frontend' = [frontend EXCEPT !.pc = "625"]
    /\ UNCHANGED << nfc_tag_state, nfc_status, amiibo_data, amiibo_filename,
                    amiibo_in_range, tag_in_range_event, tag_out_of_range_event,
                    signals, hle_lock, frontend_rest >>

\* 625: nfc->amiibo_filename = fullpath
ConcLoad625 ==
    /\ frontend.pc = "625"
    /\ amiibo_filename' = frontend.path
    /\ frontend' = [frontend EXCEPT !.pc = "626"]
    /\ UNCHANGED << nfc_tag_state, nfc_status, amiibo_data, amiibo_decrypted,
                    amiibo_in_range, tag_in_range_event, tag_out_of_range_event,
                    signals, hle_lock, frontend_rest >>

\* 626: nfc->amiibo_in_range = true
ConcLoad626 ==
    /\ frontend.pc = "626"
    /\ amiibo_in_range' = TRUE
    /\ frontend' = [frontend EXCEPT !.pc = "627"]
    /\ UNCHANGED << nfc_tag_state, nfc_status, amiibo_data, amiibo_decrypted,
                    amiibo_filename, tag_in_range_event, tag_out_of_range_event,
                    signals, hle_lock, frontend_rest >>

\* 627: std::memcpy(nfc->amiibo_data, &amiibo_data, sizeof(amiibo_data))
ConcLoad627 ==
    /\ frontend.pc = "627"
    /\ amiibo_data' = frontend.local
    /\ frontend' = [frontend EXCEPT !.pc = "628"]
    /\ UNCHANGED << nfc_tag_state, nfc_status, amiibo_decrypted, amiibo_filename,
                    amiibo_in_range, tag_in_range_event, tag_out_of_range_event,
                    signals, hle_lock, frontend_rest >>

\* 628-633: nfc->SyncTagState(); success = true
ConcLoad628 ==
    /\ frontend.pc = "628"
    /\ DoSync(nfc_tag_state, amiibo_in_range)
    /\ frontend' = [frontend EXCEPT !.pc = "635", !.success = TRUE]
    /\ UNCHANGED << nfc_status, amiibo_data, amiibo_decrypted, amiibo_filename,
                    amiibo_in_range, hle_lock, frontend_rest >>

\* 635-638: the file is closed, the lock released, success returned
ConcLoadLeave ==
    /\ frontend.pc = "635"
    /\ unlock("frontend")
    /\ frontend' = FrontendIdle
    /\ UNCHANGED << module_vars, signals, frontend_rest >>

\* 641: RemoveAmiibo takes the lock
ConcRemoveEnter ==
    /\ frontend.pc = "idle"
    /\ lock_guard("frontend")
    /\ frontend' = [FrontendIdle EXCEPT !.pc = "642"]
    /\ UNCHANGED << module_vars, signals, frontend_rest >>

\* 642: nfc->amiibo_in_range = false
ConcRemove642 ==
    /\ frontend.pc = "642"
    /\ amiibo_in_range' = FALSE
    /\ frontend' = [frontend EXCEPT !.pc = "643"]
    /\ UNCHANGED << nfc_tag_state, nfc_status, amiibo_data, amiibo_decrypted,
                    amiibo_filename, tag_in_range_event, tag_out_of_range_event,
                    signals, hle_lock, frontend_rest >>

\* 643: nfc->SyncTagState()
ConcRemove643 ==
    /\ frontend.pc = "643"
    /\ DoSync(nfc_tag_state, amiibo_in_range)
    /\ frontend' = [frontend EXCEPT !.pc = "644"]
    /\ UNCHANGED << nfc_status, amiibo_data, amiibo_decrypted, amiibo_filename,
                    amiibo_in_range, hle_lock, frontend_rest >>

\* 644: the lock is released
ConcRemoveLeave ==
    /\ frontend.pc = "644"
    /\ unlock("frontend")
    /\ frontend' = FrontendIdle
    /\ UNCHANGED << module_vars, signals, frontend_rest >>

\* the dispatcher takes the lock and calls UpdateStoredAmiiboData (465-467)
ConcUpdateEnter ==
    \E io \in IoOutcomes :
    /\ Ready
    /\ CallSVC
    /\ updates < MaxUpdates
         \/ ~UpdatePreconditions(nfc_tag_state, amiibo_decrypted, amiibo_filename)
    /\ hle_lock' = "guest"
    /\ guest' = [GuestIdle EXCEPT !.pc = "469"]
    /\ op' = [Op("UpdateStoredAmiiboData") EXCEPT !.io = io]
    /\ reply' = NoReply
    /\ signals' = NoSignals
    /\ UNCHANGED << module_vars, files, updates, frontend, date_io >>

\* 469-475, 494-495: the three checks, and the reply when one fails
ConcUpdateCheck ==
    /\ guest.pc = "469"
    /\ IF UpdatePreconditions(nfc_tag_state, amiibo_decrypted, amiibo_filename)
       THEN /\ guest' = [pc |-> "477", filename |-> amiibo_filename,
                         checked |-> amiibo_data]
            /\ UNCHANGED reply
       ELSE /\ guest' = [guest EXCEPT !.pc = "return"]
            /\ reply' = InvalidState
    /\ UNCHANGED << module_vars, files, updates, op, signals, hle_lock, frontend,
                    date_io >>

\* 477-489: the lock, the metadata, and the write of the record to the file
ConcUpdateWrite ==
    /\ guest.pc = "477"
    /\ lock_guard("guest")
    /\ updates' = updates + 1
    /\ amiibo_data' = UpdatedRecord(amiibo_data, op.io)
    /\ files' = [files EXCEPT ![amiibo_filename] =
                    WrittenFile(@, amiibo_data', op.io)]
    /\ guest' = [guest EXCEPT !.pc = "490"]
    /\ UNCHANGED << nfc_tag_state, nfc_status, amiibo_decrypted, amiibo_filename,
                    amiibo_in_range, tag_in_range_event, tag_out_of_range_event,
                    op, reply, signals, frontend, date_io >>

\* 490-493: RemoveAmiibo (641-643, the lock is already held) and the reply
ConcUpdateEvict ==
    /\ guest.pc = "490"
    /\ amiibo_in_range' = FALSE
    /\ DoSync(nfc_tag_state, FALSE)
    /\ reply' = Reply(UpdateStatus(op.io), << >>)
    /\ guest' = [guest EXCEPT !.pc = "return"]
    /\ UNCHANGED << nfc_status, amiibo_data, amiibo_decrypted, amiibo_filename,
                    files, updates, op, hle_lock, frontend, date_io >>

\* the handler has returned: the dispatcher releases the lock
ConcUpdateLeave ==
    /\ guest.pc = "return"
    /\ hle_lock' = "free"
    /\ guest' = GuestIdle
    /\ UNCHANGED << module_vars, files, updates, op, reply, signals, frontend,
                    date_io >>

ConcNext ==
    \/ CallSVC /\ Initialize
    \/ CallSVC /\ Shutdown
    \/ CallSVC /\ StartTagScanning
    \/ CallSVC /\ StopTagScanning
    \/ CallSVC /\ LoadAmiiboData
    \/ CallSVC /\ ResetTagScanState
    \/ CallSVC /\ Unknown0x1A
    \/ CallSVC /\ GetTagState
    \/ CallSVC /\ GetTagInfo
    \/ CallSVC /\ GetAmiiboConfig
    \/ ConcUpdateEnter
    \/ ConcUpdateCheck
    \/ ConcUpdateWrite
    \/ ConcUpdateEvict
    \/ ConcUpdateLeave
    \/ guest.pc = "idle" /\ Return
    \/ ConcLoadEnter
    \/ ConcLoadRead
    \/ ConcLoad624
    \/ ConcLoad625
    \/ ConcLoad626
    \/ ConcLoad627
    \/ ConcLoad628
    \/ ConcLoadLeave
    \/ ConcRemoveEnter
    \/ ConcRemove642
    \/ ConcRemove643
    \/ ConcRemoveLeave

SpecConc == Init /\ [][ConcNext]_vars

(***************************************************************************)
(* Properties.  A step that dispatches a handler leads from an idle state  *)
(* (the state the handler finds, unprimed) to the state it leaves          *)
(* (primed), in which op names the handler and reply, signals hold what it *)
(* pushed and signalled.                                                   *)
(***************************************************************************)
Replied(r, status) == r.pushed /\ r.status = status
record_vars == << amiibo_data, amiibo_decrypted, amiibo_filename, amiibo_in_range >>
event_vars == << tag_in_range_event, tag_out_of_range_event >>

\* the states in which the dispatcher's table accepts an operation
AcceptedStates(name) ==
    CASE name = "Initialize" -> {NotInitialized}
      [] name = "StartTagScanning" -> {NotScanning, TagOutOfRange}
      [] name = "StopTagScanning" -> TagStates \ {NotInitialized, NotScanning}
      [] name = "ResetTagScanState" -> {TagDataLoaded, Unknown6}
      [] name = "GetTagInfo" -> {TagInRange, TagDataLoaded, Unknown6}
      [] name = "ReadAppData" -> TagStates \ {NotInitialized}
      [] name = "WriteAppData" -> TagStates \ {NotInitialized}
      [] name = "UpdateStoredAmiiboData" -> {TagDataLoaded}
      [] name = "GetTagInRangeEvent" -> {NotScanning}
      [] name = "GetTagOutOfRangeEvent" -> {NotScanning}
      [] name = "Unknown0x1A" -> {TagInRange}
      [] name = "GetIdentificationBlock" -> {TagDataLoaded, Unknown6}
      [] OTHER -> TagStates

\* C1 (state gating): every guest operation dispatched in a state outside
\* its accepted set replies CommandInvalidForState and leaves the session
\* state, the record (bytes, variant flag, path, presence) and both events
\* unchanged, whatever variant is loaded.
C1_StateGating ==
    [][(op'.name \in GuestOps /\ nfc_tag_state \notin AcceptedStates(op'.name))
         => /\ Replied(reply', CommandInvalidForState)
            /\ UNCHANGED << nfc_tag_state, record_vars, event_vars >>
            /\ signals' = NoSignals]_vars

\* C2 (reconciliation): after a successful LoadAmiibo and after RemoveAmiibo,
\* a present tag found in Scanning or TagOutOfRange gives TagInRange and one
\* signal of the entered-range event only; an absent tag found in TagInRange,
\* TagDataLoaded or Unknown6 gives TagOutOfRange and one signal of the
\* left-range event only; otherwise the state stays and nothing is signalled.
C2_Reconciliation ==
    ((op.name = "LoadAmiibo" /\ op.ret) \/ op.name = "RemoveAmiibo")
      => IF amiibo_in_range /\ op.from \in {Scanning, TagOutOfRange}
         THEN nfc_tag_state = TagInRange /\ signals = [in |-> 1, out |-> 0]
         ELSE IF ~amiibo_in_range /\ op.from \in {TagInRange, TagDataLoaded, Unknown6}
         THEN nfc_tag_state = TagOutOfRange /\ signals = [in |-> 0, out |-> 1]
         ELSE nfc_tag_state = op.from /\ signals = NoSignals

\* a tag was removed while the session was in Unknown6
C2_Witness ==
    /\ op.name = "RemoveAmiibo"
    /\ op.from = Unknown6
    /\ nfc_tag_state = TagOutOfRange
    /\ signals = [in |-> 0, out |-> 1]

\* C3 as stated (signal exclusivity): a load signals the entered-range event
\* only when it finds Scanning, a removal signals the left-range event only
\* when it finds TagDataLoaded, and a load or removal that finds any other
\* state signals neither event.
C3_AsStated ==
    /\ (op.name = "LoadAmiibo" /\ op.from # Scanning) => signals = NoSignals
    /\ (op.name = "RemoveAmiibo" /\ op.from # TagDataLoaded) => signals = NoSignals
    /\ op.name = "LoadAmiibo" => signals.out = 0
    /\ op.name = "RemoveAmiibo" => signals.in = 0

\* C3 as amended: a load signals the entered-range event only when it finds
\* Scanning or TagOutOfRange, a removal signals the left-range event only
\* when it finds TagInRange, TagDataLoaded or Unknown6; a load or removal
\* that finds any other state signals neither event, a load never signals
\* the left-range event and a removal never the entered-range event.
C3_SignalExclusivity ==
    /\ (op.name = "LoadAmiibo" /\ op.from \notin {Scanning, TagOutOfRange})
         => signals = NoSignals
    /\ (op.name = "RemoveAmiibo" /\ op.from \notin {TagInRange, TagDataLoaded, Unknown6})
         => signals = NoSignals
    /\ op.name = "LoadAmiibo" => signals.out = 0
    /\ op.name = "RemoveAmiibo" => signals.in = 0

\* a tag was loaded again after it had left range, and the event was signalled
C3_Witness ==
    /\ op.name = "LoadAmiibo"
    /\ op.ret
    /\ op.from = TagOutOfRange
    /\ signals = [in |-> 1, out |-> 0]

\* the module as constructed, but for the state: no tag was ever loaded and
\* no event was ever signalled
Fresh ==
    /\ ~amiibo_in_range
    /\ ~amiibo_decrypted
    /\ amiibo_filename = ""
    /\ ~tag_in_range_event
    /\ ~tag_out_of_range_event

\* C4 (start-up scenario): from the initial state Initialize succeeds and
\* gives NotScanning; then StartTagScanning succeeds and gives Scanning; a
\* successful LoadAmiibo then gives TagInRange with the entered-range event
\* signalled exactly once, and the left-range event is signalled nowhere
\* along the way.
C4_StartUp ==
    [][/\ (op'.name = "Initialize" /\ Fresh /\ nfc_tag_state = NotInitialized)
            => /\ Replied(reply', RESULT_SUCCESS)
               /\ nfc_tag_state' = NotScanning
               /\ signals' = NoSignals
               /\ Fresh'
       /\ (op'.name = "StartTagScanning" /\ Fresh /\ nfc_tag_state = NotScanning)
            => /\ Replied(reply', RESULT_SUCCESS)
               /\ nfc_tag_state' = Scanning
               /\ signals' = NoSignals
               /\ Fresh'
       /\ (op'.name = "LoadAmiibo" /\ op'.ret /\ Fresh /\ nfc_tag_state = Scanning)
            => /\ nfc_tag_state' = TagInRange
               /\ signals' = [in |-> 1, out |-> 0]
               /\ tag_in_range_event'
               /\ ~tag_out_of_range_event']_vars

\* the end of the scenario: the first tag was loaded while Scanning
C4_Witness ==
    /\ op.name = "LoadAmiibo"
    /\ op.ret
    /\ op.from = Scanning
    /\ nfc_tag_state = TagInRange
    /\ tag_in_range_event
    /\ ~tag_out_of_range_event
    /\ updates = 0

\* C5 (StartTagScanning): accepted exactly in NotScanning and TagOutOfRange;
\* when accepted, with no tag present the state becomes Scanning and nothing
\* is signalled, with a tag present it becomes TagInRange and the
\* entered-range event is signalled exactly once.
C5_StartTagScanning ==
    op.name = "StartTagScanning"
      => IF op.from \in {NotScanning, TagOutOfRange}
         THEN /\ Replied(reply, RESULT_SUCCESS)
              /\ IF amiibo_in_range
                 THEN nfc_tag_state = TagInRange /\ signals = [in |-> 1, out |-> 0]
                 ELSE nfc_tag_state = Scanning /\ signals = NoSignals
         ELSE /\ Replied(reply, CommandInvalidForState)
              /\ nfc_tag_state = op.from
              /\ signals = NoSignals

\* scanning was started with a tag already present
C5_Witness ==
    /\ op.name = "StartTagScanning"
    /\ op.from = NotScanning
    /\ amiibo_in_range
    /\ nfc_tag_state = TagInRange
    /\ signals = [in |-> 1, out |-> 0]

\* C6 (UpdateStoredAmiiboData, failed precondition): dispatched outside
\* TagDataLoaded, or with a record that is not decrypted, or with an empty
\* path, it replies CommandInvalidForState and changes nothing: record (so
\* write counter and last-write date), file, presence, state and events.
C6_UpdatePreconditionFails ==
    [][(/\ op'.name = "UpdateStoredAmiiboData"
        /\ \/ nfc_tag_state # TagDataLoaded
           \/ ~amiibo_decrypted
           \/ amiibo_filename = "")
         => /\ Replied(reply', CommandInvalidForState)
            /\ UNCHANGED << nfc_tag_state, record_vars, event_vars, files >>
            /\ signals' = NoSignals]_vars

\* the update was refused in TagDataLoaded, for a record that is not decrypted
C6_Witness ==
    /\ op.name = "UpdateStoredAmiiboData"
    /\ op.from = TagDataLoaded
    /\ ~amiibo_decrypted
    /\ amiibo_filename # ""
    /\ Replied(reply, CommandInvalidForState)

\* the checks of UpdateStoredAmiiboData pass in the state the handler finds
UpdateAccepted ==
    nfc_tag_state = TagDataLoaded /\ amiibo_decrypted /\ amiibo_filename # ""

\* C7 (persistence failure, record): when the checks pass but the file
\* cannot be opened or written, the record in memory is as before the call.
C7_FailedWriteKeepsRecord ==
    [][(op'.name = "UpdateStoredAmiiboData" /\ UpdateAccepted /\ op'.io # "ok")
         => amiibo_data' = amiibo_data]_vars

\* C8 (persistence failure, status and state): when the open or the write
\* fails, the reply is CommandInvalidForState, the state is as before, the
\* tag is not evicted and the left-range event is not signalled.
C8_FailedWriteStatus ==
    [][(op'.name = "UpdateStoredAmiiboData" /\ UpdateAccepted /\ op'.io # "ok")
         => /\ Replied(reply', CommandInvalidForState)
            /\ UNCHANGED << nfc_tag_state, amiibo_in_range >>
            /\ signals'.out = 0]_vars

\* what a successful UpdateStoredAmiiboData does besides the write counter
UpdateSucceeded ==
    /\ U16BE(amiibo_data', LastWriteDateOff) = pack_date(11, 21, 2014)
    /\ files'[amiibo_filename].exists
    /\ files'[amiibo_filename].size = SizeofAmiiboData
    /\ \A i \in Offsets : files'[amiibo_filename].data[i] = amiibo_data'[i]
    /\ ~amiibo_in_range'
    /\ nfc_tag_state' = TagOutOfRange
    /\ signals' = [in |-> 0, out |-> 1]
    /\ Replied(reply', RESULT_SUCCESS)

\* C9 as stated (successful update): the write counter becomes its old value
\* plus one, last_write_date becomes pack_date(11, 21, 2014), the record
\* written to the path is the updated record, the tag is evicted, the state
\* becomes TagOutOfRange, the left-range event is signalled once and the
\* reply is success.
C9_AsStated ==
    [][(op'.name = "UpdateStoredAmiiboData" /\ UpdateAccepted /\ op'.io = "ok")
         => /\ U16BE(amiibo_data', WriteCountOff) = U16BE(amiibo_data, WriteCountOff) + 1
            /\ UpdateSucceeded]_vars

\* C9 as amended: the same, with the write counter, a 16-bit field, becoming
\* its old value plus one modulo 2^16.
C9_UpdateSucceeds ==
    [][(op'.name = "UpdateStoredAmiiboData" /\ UpdateAccepted /\ op'.io = "ok")
         => /\ U16BE(amiibo_data', WriteCountOff)
                 = (U16BE(amiibo_data, WriteCountOff) + 1) % 65536
            /\ UpdateSucceeded]_vars

\* a record with write counter 255 was updated and written
C9_Witness ==
    /\ op.name = "UpdateStoredAmiiboData"
    /\ op.io = "ok"
    /\ Replied(reply, RESULT_SUCCESS)
    /\ U16BE(amiibo_data, WriteCountOff) = 256
    /\ files[amiibo_filename].data = amiibo_data
    /\ nfc_tag_state = TagOutOfRange

\* C10 (WriteAppData, length mismatch): when the declared size differs from
\* the length of the buffer, no byte of the record changes and the reply
\* carries an error status.  (Stated for a decrypted record, the only one
\* WriteAppData looks at the lengths for.)
C10_MismatchRejected ==
    [][(op'.name = "WriteAppData" /\ amiibo_decrypted /\ op'.size # op'.len)
         => /\ amiibo_data' = amiibo_data
            /\ reply'.pushed
            /\ reply'.status # RESULT_SUCCESS]_vars

\* C11 (WriteAppData, matching size): for a decrypted record in a state
\* other than NotInitialized, a declared size equal to the buffer length and
\* at most 0xD8 makes exactly the first `size` bytes of app_data the payload
\* bytes and leaves every other byte of the record as it was.
C11_WriteAppDataMatching ==
    [][(/\ op'.name = "WriteAppData"
        /\ amiibo_decrypted
        /\ nfc_tag_state # NotInitialized
        /\ op'.size = op'.len
        /\ op'.size <= AppDataSize)
         => \A i \in Offsets :
               amiibo_data'[i] =
                 IF i >= AppDataOff /\ i < AppDataOff + op'.size
                 THEN Payload(op'.len)[i - AppDataOff + 1]
                 ELSE amiibo_data[i]]_vars

\* one byte was written: the first byte of app_data is the payload byte, the
\* second is still the byte of the dump
C11_Witness ==
    /\ op.name = "WriteAppData"
    /\ op.size = 1
    /\ op.len = 1
    /\ Replied(reply, RESULT_SUCCESS)
    /\ amiibo_decrypted
    /\ amiibo_data[AppDataOff] = Payload(1)[1]
    /\ amiibo_data[AppDataOff + 1] = Image(2, 0, 0, 0)[AppDataOff + 1]

\* the bytes of the record InitializeWriteAppData may write: app_data and
\* the app_id field
InitializeWritable ==
    (AppDataOff .. (AppDataOff + AppDataSize - 1)) \cup (AppIdOff .. (AppIdOff + 3))

\* C12 (InitializeWriteAppData): a declared size different from the buffer
\* length changes no byte of the record; for every input no byte outside
\* app_data and app_id changes; and when the length check passes, the region
\* holds the payload and the stored app id is the argument.
C12_InitializeWriteAppData ==
    [][(op'.name = "InitializeWriteAppData" /\ amiibo_decrypted)
         => /\ op'.size # op'.len => amiibo_data' = amiibo_data
            /\ \A i \in Offsets \ InitializeWritable : amiibo_data'[i] = amiibo_data[i]
            /\ (op'.size = op'.len /\ op'.size <= AppDataSize)
                 => /\ U32BE(amiibo_data', AppIdOff) = op'.app_id
                    /\ \A k \in 1 .. op'.size :
                          amiibo_data'[AppDataOff + k - 1] = Payload(op'.len)[k]]_vars

\* the five operations that need a decrypted record
NeedDecrypted == {"GetAmiiboSettings", "OpenAppData", "InitializeWriteAppData",
                  "ReadAppData", "WriteAppData"}

\* C13 (data availability): every dispatched guest operation pushes a reply
\* with a status; the five operations that need a decrypted record, called
\* while the record is not decrypted (a raw dump, or none ever loaded), push
\* an error status and change nothing.
C13_AvailabilityReported ==
    [][/\ op'.name \in GuestOps => reply'.pushed
       /\ (op'.name \in NeedDecrypted /\ ~amiibo_decrypted)
            => /\ reply'.pushed
               /\ reply'.status # RESULT_SUCCESS
               /\ UNCHANGED << nfc_tag_state, record_vars, event_vars, files >>]_vars

\* C14 (eviction drops the capability to persist): while no tag is present
\* (after RemoveAmiibo or the eviction of an update, until the next
\* successful LoadAmiibo) no guest operation writes the backing file,
\* UpdateStoredAmiiboData does not succeed, the path is retained and the
\* presence flag stays false.
C14_EvictedNeverPersists ==
    [][(op'.name \in GuestOps /\ ~amiibo_in_range)
         => /\ files' = files
            /\ op'.name = "UpdateStoredAmiiboData" => ~Replied(reply', RESULT_SUCCESS)
            /\ amiibo_filename' = amiibo_filename
            /\ ~amiibo_in_range']_vars

\* the operations that read or write the record
RecordOps == {"GetAmiiboConfig", "GetAmiiboSettings", "OpenAppData", "ReadAppData",
              "WriteAppData", "InitializeWriteAppData"}

\* C15 (record lifetime): after an eviction and before the next successful
\* load (a path is known, no tag is present) none of the operations that
\* read or write the record changes a byte of it or replies success with
\* content taken from it.
C15_NoUseAfterEviction ==
    [][(op'.name \in RecordOps /\ ~amiibo_in_range /\ amiibo_filename # "")
         => /\ amiibo_data' = amiibo_data
            /\ ~(Replied(reply', RESULT_SUCCESS) /\ reply'.payload # << >>)]_vars

\* C16 (failed load): when the file cannot be opened, or holds fewer than
\* 0x21C bytes, LoadAmiibo returns false and the record bytes, variant flag,
\* path, presence flag, state and both events are as before the call.
C16_FailedLoadChangesNothing ==
    [][(/\ op'.name = "LoadAmiibo"
        /\ \/ ~files[op'.path].exists
           \/ files[op'.path].size < SizeofAmiiboData)
         => /\ ~op'.ret
            /\ UNCHANGED << nfc_tag_state, record_vars, event_vars >>
            /\ signals' = NoSignals]_vars

\* a short file was refused while the tag loaded before it stayed in range
C16_Witness ==
    /\ op.name = "LoadAmiibo"
    /\ op.path = "short.bin"
    /\ ~op.ret
    /\ amiibo_in_range
    /\ amiibo_filename = "logical.bin"
    /\ nfc_tag_state = TagInRange

\* C17 (ResetTagScanState): accepted exactly in TagDataLoaded and Unknown6;
\* when accepted the reply is success and, with the tag present, the state
\* becomes TagInRange and nothing is signalled; with the tag absent it
\* becomes TagOutOfRange and the left-range event is signalled exactly once.
C17_ResetTagScanState ==
    op.name = "ResetTagScanState"
      => IF op.from \in {TagDataLoaded, Unknown6}
         THEN /\ Replied(reply, RESULT_SUCCESS)
              /\ IF amiibo_in_range
                 THEN nfc_tag_state = TagInRange /\ signals = NoSignals
                 ELSE nfc_tag_state = TagOutOfRange /\ signals = [in |-> 0, out |-> 1]
         ELSE /\ Replied(reply, CommandInvalidForState)
              /\ nfc_tag_state = op.from
              /\ signals = NoSignals

\* the scan state was reset after the tag had been removed
C17_Witness ==
    /\ op.name = "ResetTagScanState"
    /\ op.from = TagDataLoaded
    /\ ~amiibo_in_range
    /\ nfc_tag_state = TagOutOfRange
    /\ signals = [in |-> 0, out |-> 1]
    /\ Replied(reply, RESULT_SUCCESS)

\* C18 (LoadAmiiboData): in any state, with or without a tag and whatever
\* the variant, it replies success and sets TagDataLoaded, signals nothing
\* and leaves the record and the presence flag unchanged.
C18_LoadAmiiboData ==
    [][op'.name = "LoadAmiiboData"
         => /\ Replied(reply', RESULT_SUCCESS)
            /\ nfc_tag_state' = TagDataLoaded
            /\ signals' = NoSignals
            /\ UNCHANGED << record_vars, event_vars >>]_vars

\* LoadAmiiboData was called on a module never initialized, no tag present
C18_Witness ==
    /\ op.name = "LoadAmiiboData"
    /\ op.from = NotInitialized
    /\ ~amiibo_in_range
    /\ nfc_tag_state = TagDataLoaded
    /\ Replied(reply, RESULT_SUCCESS)

\* C19 (Shutdown): in every state it replies success, sets NotInitialized,
\* signals neither event and leaves record, path and presence unchanged; an
\* Initialize dispatched in the state it leaves is accepted.
C19_Shutdown ==
    [][/\ op'.name = "Shutdown"
            => /\ Replied(reply', RESULT_SUCCESS)
               /\ nfc_tag_state' = NotInitialized
               /\ signals' = NoSignals
               /\ UNCHANGED << record_vars, event_vars >>
       /\ (op'.name = "Initialize" /\ nfc_tag_state = NotInitialized)
            => /\ Replied(reply', RESULT_SUCCESS)
               /\ nfc_tag_state' = NotScanning]_vars

\* Initialize was accepted again after a session in which a tag had entered
\* range: the module had been shut down with the tag still present
C19_Witness ==
    /\ op.name = "Initialize"
    /\ Replied(reply, RESULT_SUCCESS)
    /\ nfc_tag_state = NotScanning
    /\ tag_in_range_event
    /\ ~tag_out_of_range_event
    /\ amiibo_in_range

\* C20 (StopTagScanning): rejected with CommandInvalidForState exactly in
\* NotInitialized and NotScanning; in the other five states it replies
\* success and sets NotScanning, signals neither event and leaves the
\* presence flag and the record unchanged.
C20_StopTagScanning ==
    [][op'.name = "StopTagScanning"
         => /\ signals' = NoSignals
            /\ UNCHANGED << record_vars, event_vars >>
            /\ IF nfc_tag_state \in {NotInitialized, NotScanning}
               THEN /\ Replied(reply', CommandInvalidForState)
                    /\ UNCHANGED nfc_tag_state
               ELSE /\ Replied(reply', RESULT_SUCCESS)
                    /\ nfc_tag_state' = NotScanning]_vars

\* scanning was stopped with the tag in range
C20_Witness ==
    /\ op.name = "StopTagScanning"
    /\ op.from = TagInRange
    /\ amiibo_in_range
    /\ nfc_tag_state = NotScanning
    /\ Replied(reply, RESULT_SUCCESS)

\* the app id stored in the record, read byte by byte (big-endian)
StoredAppId ==
    ((amiibo_data[AppIdOff] * 256 + amiibo_data[AppIdOff + 1]) * 256
        + amiibo_data[AppIdOff + 2]) * 256 + amiibo_data[AppIdOff + 3]

\* bit 0x20 / bit 0x10 of the flags byte of the record
AppDataBit == (amiibo_data[FlagsOff] \div 32) % 2 = 1
SettingsBit == (amiibo_data[FlagsOff] \div 16) % 2 = 1

\* C21 (OpenAppData on a decrypted record, any state): AppIdMismatch when
\* the argument differs from the stored app id, whatever bit 0x20 says;
\* otherwise AppDataUninitialized when bit 0x20 is unset; otherwise success;
\* state, record and events unchanged in all three cases.
C21_OpenAppData ==
    [][(op'.name = "OpenAppData" /\ amiibo_decrypted)
         => /\ reply'.pushed
            /\ reply'.status = IF op'.app_id # StoredAppId THEN AppIdMismatch
                                ELSE IF ~AppDataBit THEN AppDataUninitialized
                                ELSE RESULT_SUCCESS
            /\ UNCHANGED << nfc_tag_state, record_vars, event_vars >>
            /\ signals' = NoSignals]_vars

\* the wrong app id was passed for a record whose bit 0x20 is unset
C21_Witness ==
    /\ op.name = "OpenAppData"
    /\ amiibo_decrypted
    /\ op.app_id # StoredAppId
    /\ ~AppDataBit
    /\ Replied(reply, AppIdMismatch)

\* C22 (GetAmiiboSettings on a decrypted record): with bit 0x10 unset the
\* reply is AmiiboNotSetup with an all-zero struct; with it set the reply is
\* success with mii and country from the record, flags = record flags AND
\* 0x0F and setup year, month, day the unpacked setup date; nothing changes.
C22_GetAmiiboSettings ==
    [][(op'.name = "GetAmiiboSettings" /\ amiibo_decrypted)
         => /\ UNCHANGED << nfc_tag_state, record_vars, event_vars >>
            /\ signals' = NoSignals
            /\ Len(reply'.payload) = SizeofAmiiboSettings
            /\ IF ~SettingsBit
               THEN /\ Replied(reply', AmiiboNotSetup)
                    /\ \A k \in 1 .. SizeofAmiiboSettings : reply'.payload[k] = 0
               ELSE LET p == reply'.payload
                        date == amiibo_data[SetupDateOff] * 256 + amiibo_data[SetupDateOff + 1]
                    IN  /\ Replied(reply', RESULT_SUCCESS)
                        /\ \A k \in 1 .. MiiSize : p[k] = amiibo_data[MiiOff + k - 1]
                        /\ p[MiiSize + SettingsNicknameSize + 1] = amiibo_data[FlagsOff] % 16
                        /\ p[MiiSize + SettingsNicknameSize + 2] = amiibo_data[CountryOff]
                        /\ p[MiiSize + SettingsNicknameSize + 3]
                              + 256 * p[MiiSize + SettingsNicknameSize + 4]
                              = unpack_date_year(date)
                        /\ p[MiiSize + SettingsNicknameSize + 5] = unpack_date_month(date)
                        /\ p[MiiSize + SettingsNicknameSize + 6] = unpack_date_day(date)]_vars

\* the settings of a tag that was set up: flags 0x3F are reported as 0x0F
C22_Witness ==
    /\ op.name = "GetAmiiboSettings"
    /\ amiibo_decrypted
    /\ amiibo_data[FlagsOff] = 63
    /\ Replied(reply, RESULT_SUCCESS)
    /\ reply.payload[MiiSize + SettingsNicknameSize + 1] = 15

\* C23 (ReadAppData and the round trip): on a decrypted record outside
\* NotInitialized, ReadAppData replies success with exactly the 0xD8 bytes
\* app_data holds and sets TagDataLoaded, changing no byte of the record;
\* and an accepted WriteAppData of a full 0xD8-byte buffer leaves app_data
\* equal to that buffer, so that a ReadAppData of the record as written
\* returns it.
C23_ReadAppData ==
    [][/\ (op'.name = "ReadAppData" /\ amiibo_decrypted /\ nfc_tag_state # NotInitialized)
            => /\ Replied(reply', RESULT_SUCCESS)
               /\ Len(reply'.payload) = AppDataSize
               /\ \A k \in 1 .. AppDataSize :
                     reply'.payload[k] = amiibo_data[AppDataOff + k - 1]
               /\ nfc_tag_state' = TagDataLoaded
               /\ UNCHANGED << record_vars, event_vars >>
       /\ (/\ op'.name = "WriteAppData"
           /\ amiibo_decrypted
           /\ nfc_tag_state # NotInitialized
           /\ op'.size = AppDataSize
           /\ op'.len = AppDataSize)
            => \A k \in 1 .. AppDataSize :
                  amiibo_data'[AppDataOff + k - 1] = Payload(AppDataSize)[k]]_vars

\* ReadAppData returned a full buffer written before: no dump holds it
C23_Witness ==
    /\ op.name = "ReadAppData"
    /\ Replied(reply, RESULT_SUCCESS)
    /\ reply.payload = Payload(AppDataSize)
    /\ nfc_tag_state = TagDataLoaded
    /\ amiibo_filename = "logical.bin"

\* C24 (GetTagInfo): in TagInRange, TagDataLoaded and Unknown6 the reply is
\* success with length marker 7 and the 7 id bytes of the record, and the
\* call changes neither state, record, presence nor events; the reply is
\* therefore the one a second call computes from the state the first left.
C24_GetTagInfo ==
    [][(op'.name = "GetTagInfo" /\ nfc_tag_state \in {TagInRange, TagDataLoaded, Unknown6})
         => /\ UNCHANGED << nfc_tag_state, record_vars, event_vars >>
            /\ signals' = NoSignals
            /\ Replied(reply', RESULT_SUCCESS)
            /\ Len(reply'.payload) = 4 + TagInfoIdSize
            /\ reply'.payload[1] = UuidSize
            /\ reply'.payload[2] = 0
            /\ \A k \in 1 .. UuidSize :
                  reply'.payload[4 + k] =
                    amiibo_data'[(IF amiibo_decrypted' THEN DecUuidOff ELSE EncUuidOff) + k - 1]
            /\ \A k \in (UuidSize + 1) .. TagInfoIdSize : reply'.payload[4 + k] = 0]_vars

\* the id of a decrypted tag was read in TagDataLoaded
C24_Witness ==
    /\ op.name = "GetTagInfo"
    /\ op.from = TagDataLoaded
    /\ amiibo_decrypted
    /\ amiibo_in_range
    /\ Replied(reply, RESULT_SUCCESS)
    /\ reply.payload[5] = Image(2, 0, 0, 0)[DecUuidOff]

\* C25 as stated (events are signalled only by reconciliation): in every
\* step, the entered-range event is signalled only when the step takes the
\* state from Scanning or TagOutOfRange to TagInRange with the tag present,
\* the left-range event only when it takes the state from TagInRange,
\* TagDataLoaded or Unknown6 to TagOutOfRange with the tag absent.
C25_AsStated ==
    [][/\ signals'.in > 0
            => /\ nfc_tag_state \in {Scanning, TagOutOfRange}
               /\ nfc_tag_state' = TagInRange
               /\ amiibo_in_range'
       /\ signals'.out > 0
            => /\ nfc_tag_state \in {TagInRange, TagDataLoaded, Unknown6}
               /\ nfc_tag_state' = TagOutOfRange
               /\ ~amiibo_in_range']_vars

\* C25 as amended: the same, except that StartTagScanning, which assigns
\* Scanning and then reconciles, also signals the entered-range event in a
\* step that starts in NotScanning.  An event is signalled at most once in
\* a step, goes from not signalled to signalled only in such a step, and
\* only LoadAmiibo, RemoveAmiibo, StartTagScanning, ResetTagScanState and
\* UpdateStoredAmiiboData, the callers of SyncTagState, ever signal.
C25_OnlyReconciliationSignals ==
    [][/\ signals'.in > 0
            => /\ \/ nfc_tag_state \in {Scanning, TagOutOfRange}
                  \/ op'.name = "StartTagScanning" /\ nfc_tag_state = NotScanning
               /\ nfc_tag_state' = TagInRange
               /\ amiibo_in_range'
               /\ signals' = [in |-> 1, out |-> 0]
       /\ signals'.out > 0
            => /\ nfc_tag_state \in {TagInRange, TagDataLoaded, Unknown6}
               /\ nfc_tag_state' = TagOutOfRange
               /\ ~amiibo_in_range'
               /\ signals' = [in |-> 0, out |-> 1]
       /\ (tag_in_range_event' /\ ~tag_in_range_event) => signals'.in > 0
       /\ (tag_out_of_range_event' /\ ~tag_out_of_range_event) => signals'.out > 0
       /\ signals' # NoSignals
            => op'.name \in {"LoadAmiibo", "RemoveAmiibo", "StartTagScanning",
                             "ResetTagScanState", "UpdateStoredAmiiboData"}]_vars

\* StartTagScanning, called in NotScanning with a tag present, signalled
\* the entered-range event
C25_Witness ==
    /\ op.name = "StartTagScanning"
    /\ op.from = NotScanning
    /\ signals = [in |-> 1, out |-> 0]
    /\ nfc_tag_state = TagInRange
    /\ amiibo_in_range
    /\ tag_in_range_event
    /\ Replied(reply, RESULT_SUCCESS)

\* C26 (WriteAppData clamping): a declared size above 0xD8 is replaced by
\* 0xD8 before the comparison, so with an oversize declaration the buffer is
\* written iff it is exactly 0xD8 bytes long; for every input no byte of the
\* record outside app_data changes (so at most 0xD8 bytes are copied).
C26_WriteAppDataClamps ==
    [][(op'.name = "WriteAppData" /\ amiibo_decrypted /\ nfc_tag_state # NotInitialized)
         => /\ \A i \in Offsets :
                  (i < AppDataOff \/ i >= AppDataOff + AppDataSize)
                    => amiibo_data'[i] = amiibo_data[i]
            /\ (op'.size > AppDataSize /\ op'.len = AppDataSize)
                 => \A k \in 1 .. AppDataSize :
                       amiibo_data'[AppDataOff + k - 1] = Payload(AppDataSize)[k]
            /\ (op'.size > AppDataSize /\ op'.len # AppDataSize)
                 => amiibo_data' = amiibo_data]_vars

\* a declared size of 0xD9 with a 0xD8-byte buffer was written
C26_Witness ==
    /\ op.name = "WriteAppData"
    /\ op.size = AppDataSize + 1
    /\ op.len = AppDataSize
    /\ Replied(reply, RESULT_SUCCESS)
    /\ \A k \in 1 .. AppDataSize : amiibo_data[AppDataOff + k - 1] = Payload(AppDataSize)[k]
    /\ amiibo_data[AppDataOff + AppDataSize] = Image(2, 0, 0, 0)[AppDataOff + AppDataSize]

\* C27 (the variant is derived from the record): in every state with a
\* record loaded, the variant the handlers use (amiibo_decrypted) is the
\* decrypted one iff the byte at 0x1E3 of the current record is 0x02.
C27_VariantDerived ==
    amiibo_filename # "" => (amiibo_decrypted <=> amiibo_data[Unknown3Off] = 2)

(***************************************************************************)
(* C28: mutations are atomic under concurrency.  With the frontend calling *)
(* LoadAmiibo and RemoveAmiibo while the guest's handlers run: a handler   *)
(* runs a step only while the frontend is outside LoadAmiibo and           *)
(* RemoveAmiibo, so it sees no variant flag, file name or presence flag of *)
(* a load whose record bytes or reconciliation are still to come, and the  *)
(* state it finds agrees with the presence flag; the frontend runs a step  *)
(* only while the guest is outside UpdateStoredAmiiboData; and the record  *)
(* and file name UpdateStoredAmiiboData writes are the ones its checks     *)
(* passed on, still passing them.                                          *)
(***************************************************************************)
GuestRuns == (op = Idle /\ op' # Idle) \/ guest.pc' # guest.pc
FrontendRuns == frontend.pc' # frontend.pc

C29_DateRoundTrip ==
    date_io.pc = "unpacked" =>
      LET d == ShiftLeft(BitAnd(date_io.day, 31), 11)
          m == ShiftLeft(BitAnd(date_io.month, 15), 7)
          y == BitAnd(date_io.year - 2000, 127)
          packed == U16BE(date_io.stored, 1)
      IN /\ packed = BitOr(BitOr(d, m), y)
         /\ date_io.out_month = date_io.month
         /\ date_io.out_day = date_io.day
         /\ date_io.out_year = date_io.year
         /\ BitAnd(d, 63488) = d /\ BitAnd(m, 1920) = m /\ BitAnd(y, 127) = y
         /\ BitAnd(d, m) = 0 /\ BitAnd(d, y) = 0 /\ BitAnd(m, y) = 0
         /\ packed = d + m + y

\* the largest date, 31 December 2127, went through as 0xFE7F
C29_Witness ==
    /\ date_io.pc = "unpacked"
    /\ date_io.month = 12 /\ date_io.day = 31 /\ date_io.year = 2127
    /\ date_io.stored = << 254, 127 >>
    /\ date_io.out_month = 12 /\ date_io.out_day = 31 /\ date_io.out_year = 2127

\* C30 (state and presence): in every state an operation leaves, TagInRange
\* and Unknown6 imply the tag is present, Scanning and TagOutOfRange imply it
\* is absent, and Unknown6 is entered only by Unknown0x1A from TagInRange.
C30_StatePresence ==
    [][/\ nfc_tag_state' \in {TagInRange, Unknown6} => amiibo_in_range'
       /\ nfc_tag_state' \in {Scanning, TagOutOfRange} => ~amiibo_in_range'
       /\ (nfc_tag_state' = Unknown6 /\ nfc_tag_state # Unknown6)
            => op'.name = "Unknown0x1A" /\ nfc_tag_state = TagInRange]_vars

\* Unknown0x1A entered Unknown6 with the tag present
C30_Witness ==
    /\ op.name = "Unknown0x1A"
    /\ op.from = TagInRange
    /\ nfc_tag_state = Unknown6
    /\ amiibo_in_range

====
